---- MODULE Spec2Model ----
(***************************************************************************)
(* Device-monitoring inventory API (ninabel/demo_monitoring).              *)
(*                                                                         *)
(* The repository ships two entry points over the same SQLite file         *)
(* "database.db" (src/db.py:15-19, src/app/db.py:10-14):                   *)
(*   "main"  src/main.py      synchronous Session                          *)
(*   "app"   src/app/main.py  AsyncSession                                 *)
(* A behaviour is a run of one of them (variable impl) on a database file   *)
(* that is empty or was left by an earlier run of src/main.py.             *)
(*                                                                         *)
(* Store semantics the handlers rest on, all visible in the source:        *)
(*  - create_engine / create_async_engine are called without enabling      *)
(*    PRAGMA foreign_keys, so SQLite does not enforce the FOREIGN KEY      *)
(*    clauses and never runs ON DELETE CASCADE.                            *)
(*  - No Relationship() declares cascade_delete / passive_deletes, so the  *)
(*    ORM deletes only the row it is handed; for the one-to-many           *)
(*    Site.devices it first sets device.site_id to NULL, which the         *)
(*    NOT NULL column (nullable=False) rejects.                            *)
(*  - "id INTEGER PRIMARY KEY" without AUTOINCREMENT: a new row gets       *)
(*    max(id)+1, so the id of a deleted last row is handed out again.      *)
(*  - AsyncSession.delete is a coroutine; src/app/main.py calls it         *)
(*    without await, so the delete never runs.                             *)
(*  - ORDER BY timestamp DESC has no secondary key: rows with equal        *)
(*    timestamps come back in an order the store is free to choose.        *)
(* src/app/main.py imports mock from the measure module of its own         *)
(* package; the function is taken to be the mock of src/measure.py.        *)
(* Metric.unit is an opaque string no operation reads; it is left out.     *)
(***************************************************************************)
EXTENDS Integers, Sequences, FiniteSets, TLC

VARIABLES
    impl,                  \* which entry point is running: "main" or "app"
    site,                  \* table site:       id -> [name]
    devicetype,            \* table devicetype: id -> [name]
    metric,                \* table metric:     id -> [name, call]
    devicetypemetriclink,  \* table devicetypemetriclink: set of <<device_type_id, metric_id>>
    device,                \* table device:     id -> [name, site_id, device_type_id, is_active]
    measure,               \* table measure, in insertion order: measure[i] is the row with id i
    now,                   \* the wall clock read by datetime.now(timezone.utc)
    pc,                    \* the Collector job: "idle" or "running"
    devices,               \* Collector: the devices loaded and not yet visited
    pending,               \* Collector: Measure rows added to the session, not yet committed
    loaded,                \* Collector: the session's loaded DeviceType.metrics and Metric.call
    run,                   \* Collector: the devices active when the job started, and the
                           \* number of requests answered 200 since
    runs,                  \* Collector runs that may still start
    cycle,                 \* the last finished Collector run: how it ended, the rows it
                           \* committed, and whether no request was answered 200 since
                           \* it started
    nreq,                  \* HTTP requests that may still be answered 200
    last                   \* the last HTTP request answered 200

vars == <<impl, site, devicetype, metric, devicetypemetriclink, device, measure,
          now, pc, devices, pending, loaded, run, runs, cycle, nreq, last>>

catalog == <<site, devicetype, metric, devicetypemetriclink, device>>
collector == <<pc, devices, pending, loaded, run, runs, cycle>>

----------------------------------------------------------------------------
\* Bounds of the model.
MaxId == 2          \* ids 1..MaxId per table
MaxRequests == 2    \* HTTP requests answered 200 per behaviour of Spec
MaxCatalogRequests == 6  \* the same, per behaviour of SpecCatalog
MaxMeasures == 4    \* rows of table measure
MaxRace == 1        \* HTTP requests answered 200 during one Collector run
MaxRuns == 2        \* Collector runs per behaviour
MaxClock == 1       \* clock values 0..MaxClock

Impl == {"main", "app"}
Ids == 1..MaxId
Names == {"a", "b"}
DeviceNames == {"", "d"}
Calls == {"mock", "nosuch", "measure_devices"}

HTTP_200_OK == 200
HTTP_400_BAD_REQUEST == 400
HTTP_404_NOT_FOUND == 404
HTTP_405_METHOD_NOT_ALLOWED == 405
HTTP_500_INTERNAL_SERVER_ERROR == 500

----------------------------------------------------------------------------
\* The store.

SetMax(S) == CHOOSE x \in S : \A y \in S : y <= x

\* INTEGER PRIMARY KEY without AUTOINCREMENT: one more than the largest rowid.
NextId(table) == IF DOMAIN table = {} THEN 1 ELSE SetMax(DOMAIN table) + 1

Insert(table, row) == table @@ (NextId(table) :> row)

Delete(table, id) == [i \in DOMAIN table \ {id} |-> table[i]]

\* Variant: the name columns declared without unique=True.
NameTaken_unchecked(table, name, except) == FALSE

\* unique=True on Site.name, DeviceType.name, Metric.name
NameTaken(table, name, except) ==
    \E i \in DOMAIN table \ except : table[i].name = name

\* DeviceType.metrics: the link rows of the type joined with table metric,
\* as a list in increasing metric id.
RECURSIVE SortedSeq(_)
SortedSeq(S) ==
    IF S = {} THEN <<>>
    ELSE LET m == CHOOSE x \in S : \A y \in S : x <= y
         IN <<m>> \o SortedSeq(S \ {m})

\* Variant: the metrics read without the join through the link table.
device_type_metrics_unjoined(id) == DOMAIN metric

device_type_metrics(id) ==
    {m \in DOMAIN metric : <<id, m>> \in devicetypemetriclink}

\* Site.devices: the device rows whose site_id is the site's id.
site_devices(id) == {d \in DOMAIN device : device[d].site_id = id}

\* A request answered 200 is recorded in last, and counted in run.race when
\* a Collector run is in progress; a request answered with an error is
\* rolled back and leaves no trace. The handlers leave the clock, the
\* measurement log and the Collector's own state alone.
Served(op, a, b, status) ==
    /\ IF status = HTTP_200_OK
       THEN /\ nreq > 0
            /\ pc = "running" => run.race < MaxRace
            /\ nreq' = nreq - 1
            /\ last' = [op |-> op, a |-> a, b |-> b]
            /\ run' = IF pc = "running" THEN [run EXCEPT !.race = @ + 1] ELSE run
            /\ cycle' = [cycle EXCEPT !.fresh = FALSE]
       ELSE UNCHANGED <<nreq, last, run, cycle>>
    /\ UNCHANGED <<impl, measure, now, pc, devices, pending, loaded, runs>>

----------------------------------------------------------------------------
\* session.delete(x): Session.delete marks the row for deletion; the
\* AsyncSession.delete coroutine of src/app/main.py is never awaited.
session_delete(table, id) ==
    IF impl = "app" THEN table ELSE Delete(table, id)

----------------------------------------------------------------------------
\* Sites.

site_new_status(name) ==
    IF NameTaken(site, name, {}) THEN HTTP_500_INTERNAL_SERVER_ERROR
    ELSE HTTP_200_OK

site_new(name) ==
    /\ NextId(site) <= MaxId
    /\ Served("site_new", NextId(site), 0, site_new_status(name))
    /\ site' = IF site_new_status(name) = HTTP_200_OK
               THEN Insert(site, [name |-> name]) ELSE site
    /\ UNCHANGED <<devicetype, metric, devicetypemetriclink, device>>

site_edit_status(id, name) ==
    IF id \notin DOMAIN site THEN HTTP_404_NOT_FOUND
    ELSE IF NameTaken(site, name, {id}) THEN HTTP_500_INTERNAL_SERVER_ERROR
    ELSE HTTP_200_OK

site_edit(id, name) ==
    /\ Served("site_edit", id, 0, site_edit_status(id, name))
    /\ site' = IF site_edit_status(id, name) = HTTP_200_OK
               THEN [site EXCEPT ![id].name = name] ELSE site
    /\ UNCHANGED <<devicetype, metric, devicetypemetriclink, device>>

\* Session.delete(site) first detaches site.devices: UPDATE device SET
\* site_id = NULL, which NOT NULL rejects (IntegrityError, rolled back).
site_delete_status(id) ==
    IF id \notin DOMAIN site THEN HTTP_404_NOT_FOUND
    ELSE IF impl = "main" /\ site_devices(id) # {}
         THEN HTTP_500_INTERNAL_SERVER_ERROR
    ELSE HTTP_200_OK

site_delete(id) ==
    /\ Served("site_delete", id, 0, site_delete_status(id))
    /\ site' = IF site_delete_status(id) = HTTP_200_OK
               THEN session_delete(site, id) ELSE site
    /\ UNCHANGED <<devicetype, metric, devicetypemetriclink, device>>

----------------------------------------------------------------------------
\* Device types.

device_type_new_status(name) ==
    IF NameTaken(devicetype, name, {}) THEN HTTP_500_INTERNAL_SERVER_ERROR
    ELSE HTTP_200_OK

device_type_new(name) ==
    /\ NextId(devicetype) <= MaxId
    /\ Served("device_type_new", NextId(devicetype), 0, device_type_new_status(name))
    /\ devicetype' = IF device_type_new_status(name) = HTTP_200_OK
                     THEN Insert(devicetype, [name |-> name]) ELSE devicetype
    /\ UNCHANGED <<site, metric, devicetypemetriclink, device>>

device_type_edit_status(id, name) ==
    IF id \notin DOMAIN devicetype THEN HTTP_404_NOT_FOUND
    ELSE IF NameTaken(devicetype, name, {id}) THEN HTTP_500_INTERNAL_SERVER_ERROR
    ELSE HTTP_200_OK

device_type_edit(id, name) ==
    /\ Served("device_type_edit", id, 0, device_type_edit_status(id, name))
    /\ devicetype' = IF device_type_edit_status(id, name) = HTTP_200_OK
                     THEN [devicetype EXCEPT ![id].name = name] ELSE devicetype
    /\ UNCHANGED <<site, metric, devicetypemetriclink, device>>

\* The id the handler looks the metric up by: src/app/main.py selects
\* Metric.id == id, the device type's id; src/main.py uses metric_id.
add_metric_lookup(id, metric_id) == IF impl = "app" THEN id ELSE metric_id

device_type_add_metric_status(id, metric_id) ==
    IF id \notin DOMAIN devicetype THEN HTTP_404_NOT_FOUND
    ELSE IF add_metric_lookup(id, metric_id) \notin DOMAIN metric THEN HTTP_404_NOT_FOUND
    ELSE IF add_metric_lookup(id, metric_id) \in device_type_metrics(id)
         THEN HTTP_400_BAD_REQUEST
    ELSE HTTP_200_OK

device_type_add_metric(id, metric_id) ==
    /\ Served("add_metric", id, metric_id, device_type_add_metric_status(id, metric_id))
    /\ devicetypemetriclink' =
           IF device_type_add_metric_status(id, metric_id) = HTTP_200_OK
           THEN devicetypemetriclink \cup {<<id, add_metric_lookup(id, metric_id)>>}
           ELSE devicetypemetriclink
    /\ UNCHANGED <<site, devicetype, metric, device>>

remove_metric_lookup(id, metric_id) == IF impl = "app" THEN id ELSE metric_id

device_type_remove_metric_status(id, metric_id) ==
    IF id \notin DOMAIN devicetype THEN HTTP_404_NOT_FOUND
    ELSE IF remove_metric_lookup(id, metric_id) \notin DOMAIN metric THEN HTTP_404_NOT_FOUND
    ELSE IF remove_metric_lookup(id, metric_id) \notin device_type_metrics(id)
         THEN HTTP_400_BAD_REQUEST
    ELSE HTTP_200_OK

device_type_remove_metric(id, metric_id) ==
    /\ Served("remove_metric", id, metric_id, device_type_remove_metric_status(id, metric_id))
    /\ devicetypemetriclink' =
           IF device_type_remove_metric_status(id, metric_id) = HTTP_200_OK
           THEN devicetypemetriclink \ {<<id, remove_metric_lookup(id, metric_id)>>}
           ELSE devicetypemetriclink
    /\ UNCHANGED <<site, devicetype, metric, device>>

device_type_delete_status(id) ==
    IF id \notin DOMAIN devicetype THEN HTTP_404_NOT_FOUND ELSE HTTP_200_OK

\* Session.delete(device_type) removes the link rows of the loaded
\* DeviceType.metrics collection, then the devicetype row. DeviceType has no
\* relationship to Device: the device rows are not touched.
device_type_delete(id) ==
    /\ Served("device_type_delete", id, 0, device_type_delete_status(id))
    /\ devicetype' = IF device_type_delete_status(id) = HTTP_200_OK
                     THEN session_delete(devicetype, id) ELSE devicetype
    /\ devicetypemetriclink' =
           IF devicetype' # devicetype
           THEN devicetypemetriclink \ {<<id, m>> : m \in device_type_metrics(id)}
           ELSE devicetypemetriclink
    /\ UNCHANGED <<site, metric, device>>

----------------------------------------------------------------------------
\* Devices.

\* src/app/main.py device_new compares DeviceType.id with the builtin id (the
\* handler has no parameter of that name): the query cannot bind it and the
\* request ends in an unhandled exception.
device_new_status(device_type_id, site_id) ==
    IF impl = "app" THEN HTTP_500_INTERNAL_SERVER_ERROR
    ELSE IF device_type_id \notin DOMAIN devicetype THEN HTTP_404_NOT_FOUND
    ELSE IF site_id \notin DOMAIN site THEN HTTP_404_NOT_FOUND
    ELSE HTTP_200_OK

device_new_row(name, is_active, device_type_id, site_id) ==
    [name |-> IF name = "" THEN devicetype[device_type_id].name ELSE name,
     site_id |-> site_id,
     device_type_id |-> device_type_id,
     is_active |-> is_active]

device_new(name, is_active, device_type_id, site_id) ==
    /\ NextId(device) <= MaxId
    /\ Served("device_new", device_type_id, site_id,
              device_new_status(device_type_id, site_id))
    /\ device' = IF device_new_status(device_type_id, site_id) = HTTP_200_OK
                 THEN Insert(device, device_new_row(name, is_active, device_type_id, site_id))
                 ELSE device
    /\ UNCHANGED <<site, devicetype, metric, devicetypemetriclink>>

\* The ids the handler looks the site and the device type up by:
\* src/app/main.py selects Site.id == id and DeviceType.id == id, the device's id.
device_edit_site_id(id, site_id) == IF impl = "app" THEN id ELSE site_id

device_edit_device_type_id(id, device_type_id) ==
    IF impl = "app" THEN id ELSE device_type_id

device_edit_status(id, site_id, device_type_id) ==
    IF id \notin DOMAIN device THEN HTTP_404_NOT_FOUND
    ELSE IF device_edit_site_id(id, site_id) \notin DOMAIN site THEN HTTP_404_NOT_FOUND
    ELSE IF device_edit_device_type_id(id, device_type_id) \notin DOMAIN devicetype
         THEN HTTP_404_NOT_FOUND
    ELSE HTTP_200_OK

\* name and is_active are assigned before the lookups, on the session's
\* object only: a 404 leaves the session uncommitted and the row as it was.
device_edit(id, name, is_active, site_id, device_type_id) ==
    /\ Served("device_edit", id, 0, device_edit_status(id, site_id, device_type_id))
    /\ device' = IF device_edit_status(id, site_id, device_type_id) = HTTP_200_OK
                 THEN [device EXCEPT ![id] =
                          [name |-> name,
                           site_id |-> device_edit_site_id(id, site_id),
                           device_type_id |-> device_edit_device_type_id(id, device_type_id),
                           is_active |-> is_active]]
                 ELSE device
    /\ UNCHANGED <<site, devicetype, metric, devicetypemetriclink>>

device_delete_status(id) ==
    IF id \notin DOMAIN device THEN HTTP_404_NOT_FOUND ELSE HTTP_200_OK

\* Device has no relationship to Measure: the measure rows are not touched.
device_delete(id) ==
    /\ Served("device_delete", id, 0, device_delete_status(id))
    /\ device' = IF device_delete_status(id) = HTTP_200_OK
                 THEN session_delete(device, id) ELSE device
    /\ UNCHANGED <<site, devicetype, metric, devicetypemetriclink>>

----------------------------------------------------------------------------
\* Metrics.

metric_new_status(name) ==
    IF NameTaken(metric, name, {}) THEN HTTP_500_INTERNAL_SERVER_ERROR
    ELSE HTTP_200_OK

metric_new(name, call) ==
    /\ NextId(metric) <= MaxId
    /\ Served("metric_new", NextId(metric), 0, metric_new_status(name))
    /\ metric' = IF metric_new_status(name) = HTTP_200_OK
                 THEN Insert(metric, [name |-> name, call |-> call]) ELSE metric
    /\ UNCHANGED <<site, devicetype, devicetypemetriclink, device>>

metric_edit_status(id, name) ==
    IF id \notin DOMAIN metric THEN HTTP_404_NOT_FOUND
    ELSE IF NameTaken(metric, name, {id}) THEN HTTP_500_INTERNAL_SERVER_ERROR
    ELSE HTTP_200_OK

metric_edit(id, name, call) ==
    /\ Served("metric_edit", id, 0, metric_edit_status(id, name))
    /\ metric' = IF metric_edit_status(id, name) = HTTP_200_OK
                 THEN [metric EXCEPT ![id] = [name |-> name, call |-> call]] ELSE metric
    /\ UNCHANGED <<site, devicetype, devicetypemetriclink, device>>

metric_delete_status(id) ==
    IF id \notin DOMAIN metric THEN HTTP_404_NOT_FOUND ELSE HTTP_200_OK

\* Metric has no relationship to the link table or to Measure: only the
\* metric row goes.
metric_delete(id) ==
    /\ Served("metric_delete", id, 0, metric_delete_status(id))
    /\ metric' = IF metric_delete_status(id) = HTTP_200_OK
                 THEN session_delete(metric, id) ELSE metric
    /\ UNCHANGED <<site, devicetype, devicetypemetriclink, device>>

----------------------------------------------------------------------------
\* Catalog pages: the status GET /site/{id}, GET /device_type/{id} and
\* GET /metric/{id} answer with.

\* src/main.py reads device.device_type.name of every device of the site;
\* src/app/main.py returns [] for a site without devices, which is no SiteView.
site_page_status(id) ==
    IF id \notin DOMAIN site THEN HTTP_404_NOT_FOUND
    ELSE IF impl = "main"
            /\ \E d \in site_devices(id) : device[d].device_type_id \notin DOMAIN devicetype
    THEN HTTP_500_INTERNAL_SERVER_ERROR
    ELSE IF impl = "app" /\ site_devices(id) = {}
    THEN HTTP_500_INTERNAL_SERVER_ERROR
    ELSE HTTP_200_OK

\* In src/main.py the line app.get("/device_type/{id}") lacks the @: the
\* function is never registered, and the path is known for POST and DELETE
\* only.
device_type_page_status(id) ==
    IF impl = "main" THEN HTTP_405_METHOD_NOT_ALLOWED
    ELSE IF id \notin DOMAIN devicetype THEN HTTP_404_NOT_FOUND
    ELSE HTTP_200_OK

metric_page_status(id) ==
    IF id \notin DOMAIN metric THEN HTTP_404_NOT_FOUND ELSE HTTP_200_OK

----------------------------------------------------------------------------
\* History/Snapshot projector.

\* The rows of S in increasing key, rows of equal key in any order: the
\* result lists an ORDER BY over key can return.
RECURSIVE Orderings(_, _)
Orderings(S, key) ==
    IF S = {} THEN {<<>>}
    ELSE UNION {{<<x>> \o t : t \in Orderings(S \ {x}, key)} :
                x \in {x \in S : \A y \in S : key[x] <= key[y]}}

device_measures(id) == {i \in DOMAIN measure : measure[i].device_id = id}

\* .order_by(Measure.metric_id, Measure.timestamp.desc())
snapshot_key == [i \in DOMAIN measure |->
                    measure[i].metric_id * (MaxClock + 1) + (MaxClock - measure[i].timestamp)]

\* The loop over measures: the first row of each metric_id, in list order.
last_measures(ms) ==
    LET keep == {k \in DOMAIN ms :
                    \A j \in 1..(k - 1) : measure[ms[j]].metric_id # measure[ms[k]].metric_id}
        at == SortedSeq(keep)
    IN [n \in DOMAIN at |-> ms[at[n]]]

LastMeasure(i) ==
    [id |-> i, metric_id |-> measure[i].metric_id,
     value |-> measure[i].value, timestamp |-> measure[i].timestamp]

\* device.site, device.device_type and measure.metric are None when the row
\* they point to is gone; reading an attribute of None ends the request in
\* an unhandled AttributeError.
device_view_status(id, picked) ==
    IF id \notin DOMAIN device THEN HTTP_404_NOT_FOUND
    ELSE IF \/ device[id].site_id \notin DOMAIN site
            \/ device[id].device_type_id \notin DOMAIN devicetype
            \/ \E k \in DOMAIN picked : measure[picked[k]].metric_id \notin DOMAIN metric
         THEN HTTP_500_INTERNAL_SERVER_ERROR
    ELSE HTTP_200_OK

\* GET /device/{id}: the responses the handler can give.
device_view(id) ==
    {LET picked == last_measures(ms)
         status == device_view_status(id, picked)
     IN [status |-> status,
         last_measures |-> IF status = HTTP_200_OK
                           THEN [k \in DOMAIN picked |-> LastMeasure(picked[k])]
                           ELSE <<>>] :
     ms \in Orderings(device_measures(id), snapshot_key)}

pair_measures(device_id, metric_id) ==
    {i \in DOMAIN measure :
        measure[i].device_id = device_id /\ measure[i].metric_id = metric_id}

\* .order_by(Measure.timestamp.desc())
history_key == [i \in DOMAIN measure |-> MaxClock - measure[i].timestamp]

MeasureShort(i) ==
    [id |-> i, value |-> measure[i].value, timestamp |-> measure[i].timestamp]

measure_history_status(device_id, metric_id) ==
    IF device_id \notin DOMAIN device THEN HTTP_404_NOT_FOUND
    ELSE IF metric_id \notin DOMAIN metric THEN HTTP_404_NOT_FOUND
    ELSE IF \/ device[device_id].site_id \notin DOMAIN site
            \/ device[device_id].device_type_id \notin DOMAIN devicetype
         THEN HTTP_500_INTERNAL_SERVER_ERROR
    ELSE HTTP_200_OK

\* GET /history/{device_id}/{metric_id}: the responses the handler can give.
measure_history(device_id, metric_id) ==
    {LET status == measure_history_status(device_id, metric_id)
     IN [status |-> status,
         history |-> IF status = HTTP_200_OK
                     THEN [k \in DOMAIN ms |-> MeasureShort(ms[k])]
                     ELSE <<>>] :
     ms \in Orderings(pair_measures(device_id, metric_id), history_key)}

----------------------------------------------------------------------------
\* Metric function registry and Collector.

\* randrange(1, 100): the two extreme values stand for 1..99.
randrange(start, stop) == {start, stop - 1}

mock == randrange(1, 100)

\* globals().get(metric.call) is callable. Of the names drawn from Calls
\* "mock" and "measure_devices" are functions of the module, "nosuch" is no
\* global of it.
callable(call) == call \in {"mock", "measure_devices"}

\* func(metric, device) raises: measure_devices takes no arguments, the call
\* ends in a TypeError.
raises(call) == call = "measure_devices"

NoRun == [active |-> {}, race |-> 0, started |-> 0, instances |-> 0]
NothingLoaded == [types |-> <<>>, calls |-> <<>>]

\* selectinload(Device.device_type).selectinload(DeviceType.metrics): the
\* types of the given devices that exist, their metrics and those metrics'
\* rows, as the store holds them now.
Load(tids) ==
    LET ts == tids \cap DOMAIN devicetype
        ms == UNION {device_type_metrics(t) : t \in ts}
    IN [types |-> [t \in ts |-> SortedSeq(device_type_metrics(t))],
        calls |-> [m \in ms |-> metric[m].call]]

\* Rows already in the session keep the attributes they were loaded with.
Merge(old, new) ==
    [types |-> new.types @@ old.types, calls |-> old.calls @@ new.calls]

\* The (device, metric) pairs a run over the present catalog samples.
active_pairs ==
    {<<d, m>> \in (DOMAIN device) \X (DOMAIN metric) :
        /\ device[d].is_active
        /\ m \in device_type_metrics(device[d].device_type_id)}

\* Variant: the select without its where clause.
active_devices_unfiltered == DOMAIN device

\* select(Device).where(Device.is_active)
active_devices == {d \in DOMAIN device : device[d].is_active}

\* src/app/main.py loads the types
\* and metrics with it, src/main.py loads them when the loop reads them.
measure_devices_start ==
    /\ pc = "idle"
    /\ runs > 0
    /\ Len(measure) + Cardinality(active_pairs) <= MaxMeasures
    /\ LET ds == SortedSeq(active_devices)
       IN /\ devices' = [k \in DOMAIN ds |->
                            [id |-> ds[k],
                             device_type_id |-> device[ds[k]].device_type_id,
                             is_active |-> device[ds[k]].is_active]]
          /\ loaded' = IF impl = "app"
                       THEN Load({device[d].device_type_id : d \in active_devices})
                       ELSE NothingLoaded
    /\ run' = [active |-> {d \in DOMAIN device : device[d].is_active}, race |-> 0,
               started |-> now, instances |-> 1]
    /\ pc' = "running"
    /\ runs' = runs - 1
    /\ pending' = <<>>
    /\ UNCHANGED <<impl, catalog, measure, now, cycle, nreq, last>>

\* Variant: the failing run switches the device it failed on off, and
\* commits that.
Abort_deactivating(error, queued) ==
    /\ pc' = "idle"
    /\ cycle' = [outcome |-> "failed", n |-> Len(queued), fresh |-> run.race = 0,
                 error |-> error, prev |-> cycle.error]
    /\ now' = IF queued = <<>> THEN now ELSE queued[Len(queued)].timestamp
    /\ device' = [d \in DOMAIN device |->
                     IF d = Head(devices).id
                     THEN [device[d] EXCEPT !.is_active = FALSE] ELSE device[d]]
    /\ devices' = <<>>
    /\ pending' = <<>>
    /\ loaded' = NothingLoaded
    /\ run' = NoRun
    /\ UNCHANGED <<impl, site, devicetype, metric, devicetypemetriclink, measure,
                   runs, nreq, last>>

\* Variant: the rows queued before the exception are committed on the way
\* out.
Abort_committing(error, queued) ==
    /\ pc' = "idle"
    /\ cycle' = [outcome |-> "failed", n |-> Len(queued), fresh |-> run.race = 0,
                 error |-> error, prev |-> cycle.error]
    /\ now' = IF queued = <<>> THEN now ELSE queued[Len(queued)].timestamp
    /\ measure' = measure \o queued
    /\ devices' = <<>>
    /\ pending' = <<>>
    /\ loaded' = NothingLoaded
    /\ run' = NoRun
    /\ UNCHANGED <<impl, catalog, runs, nreq, last>>

\* Variant: the exception ends the scheduler's thread, no further run
\* starts.
Abort_stopping(error, queued) ==
    /\ pc' = "idle"
    /\ cycle' = [outcome |-> "failed", n |-> Len(queued), fresh |-> run.race = 0,
                 error |-> error, prev |-> cycle.error]
    /\ now' = IF queued = <<>> THEN now ELSE queued[Len(queued)].timestamp
    /\ runs' = 0
    /\ devices' = <<>>
    /\ pending' = <<>>
    /\ loaded' = NothingLoaded
    /\ run' = NoRun
    /\ UNCHANGED <<impl, catalog, measure, nreq, last>>

\* An exception leaves measure_devices: the session, with the rows queued in
\* it so far, is dropped uncommitted. The scheduler logs the exception and
\* keeps the job.
Abort(error, queued) ==
    /\ pc' = "idle"
    /\ cycle' = [outcome |-> "failed", n |-> Len(queued), fresh |-> run.race = 0,
                 error |-> error, prev |-> cycle.error]
    /\ now' = IF queued = <<>> THEN now ELSE queued[Len(queued)].timestamp
    /\ devices' = <<>>
    /\ pending' = <<>>
    /\ loaded' = NothingLoaded
    /\ run' = NoRun
    /\ UNCHANGED <<impl, catalog, measure, runs, nreq, last>>

\* The clock readings of n successive datetime.now() calls, the first not
\* before t: the clock does not run backwards.
RECURSIVE Stamps(_, _)
Stamps(n, t) ==
    IF n = 0 THEN {<<>>}
    ELSE UNION {{<<u>> \o rest : rest \in Stamps(n - 1, u)} : u \in t..MaxClock}

\* One pass of "for device in devices": read device.device_type.metrics, then
\* for each metric resolve metric.call, sample, and session.add a Measure
\* stamped with the clock reading of that moment. src/main.py passes over a
\* device whose loaded is_active is false before reading its type.
measure_devices_device ==
    /\ pc = "running"
    /\ devices # <<>>
    /\ LET d == Head(devices)
           t == d.device_type_id
           seen == IF t \in DOMAIN loaded.types \/ impl = "app"
                   THEN loaded ELSE Merge(loaded, Load({t}))
       IN IF impl = "main" /\ ~d.is_active
          THEN /\ devices' = Tail(devices)
               /\ UNCHANGED <<impl, catalog, measure, now, pc, pending, loaded, run,
                              runs, cycle, nreq, last>>
          ELSE IF t \notin DOMAIN seen.types
          THEN Abort("AttributeError", pending)
          ELSE LET ms == seen.types[t]
                   bad == {k \in DOMAIN ms : \/ ~callable(seen.calls[ms[k]])
                                            \/ raises(seen.calls[ms[k]])}
                   first == CHOOSE k \in bad : \A j \in bad : k <= j
                   sampled == IF bad = {} THEN ms
                              ELSE SubSeq(ms, 1, first - 1)
                   rows(stamps, values) ==
                       [k \in DOMAIN sampled |->
                           [device_id |-> d.id,
                            metric_id |-> sampled[k],
                            value |-> values[k],
                            timestamp |-> stamps[k]]]
               IN IF bad # {}
                  THEN \E stamps \in Stamps(Len(sampled), now),
                          values \in [DOMAIN sampled -> mock] :
                          Abort(IF callable(seen.calls[ms[first]])
                                THEN "TypeError" ELSE "ValueError",
                                pending \o rows(stamps, values))
                  ELSE /\ \E stamps \in Stamps(Len(ms), now), values \in [DOMAIN ms -> mock] :
                             /\ pending' = pending \o rows(stamps, values)
                             /\ now' = IF ms = <<>> THEN now ELSE stamps[Len(ms)]
                       /\ loaded' = seen
                       /\ devices' = Tail(devices)
                       /\ UNCHANGED <<impl, catalog, measure, pc, run, runs,
                                      cycle, nreq, last>>

\* scheduler.add_job(measure_devices, 'interval', seconds=180) names no
\* max_instances: the job runs with the scheduler's default of one instance.
max_instances == 1

\* Variant: the scheduler starts the job at every interval, whatever is
\* running.
scheduler_tick_unlimited ==
    /\ pc = "running"
    /\ runs > 0
    /\ runs' = runs - 1
    /\ run' = [run EXCEPT !.instances = @ + 1]
    /\ UNCHANGED <<impl, catalog, measure, now, pc, devices, pending, loaded,
                   cycle, nreq, last>>

\* The interval elapses while a run is in progress: the scheduler starts
\* another instance of the job only below max_instances, and otherwise logs
\* the execution as skipped.
scheduler_tick ==
    /\ pc = "running"
    /\ runs > 0
    /\ runs' = runs - 1
    /\ run' = IF run.instances < max_instances
              THEN [run EXCEPT !.instances = @ + 1] ELSE run
    /\ UNCHANGED <<impl, catalog, measure, now, pc, devices, pending, loaded,
                   cycle, nreq, last>>

\* Variant: the queued rows are inserted last added first.
measure_devices_commit_reversed ==
    /\ pc = "running"
    /\ devices = <<>>
    /\ measure' = measure \o [k \in DOMAIN pending |-> pending[Len(pending) + 1 - k]]
    /\ pc' = "idle"
    /\ cycle' = [outcome |-> "committed", n |-> Len(pending), fresh |-> run.race = 0,
                 error |-> "", prev |-> cycle.error]
    /\ pending' = <<>>
    /\ loaded' = NothingLoaded
    /\ run' = NoRun
    /\ UNCHANGED <<impl, catalog, devices, now, runs, nreq, last>>

\* Variant: the commit replaces the log by the queued rows.
measure_devices_commit_replacing ==
    /\ pc = "running"
    /\ devices = <<>>
    /\ measure' = pending
    /\ pc' = "idle"
    /\ cycle' = [outcome |-> "committed", n |-> Len(pending), fresh |-> run.race = 0,
                 error |-> "", prev |-> cycle.error]
    /\ pending' = <<>>
    /\ loaded' = NothingLoaded
    /\ run' = NoRun
    /\ UNCHANGED <<impl, catalog, devices, now, runs, nreq, last>>

\* session.commit(): the queued rows get the next ids, in the order added.
measure_devices_commit ==
    /\ pc = "running"
    /\ devices = <<>>
    /\ measure' = measure \o pending
    /\ pc' = "idle"
    /\ cycle' = [outcome |-> "committed", n |-> Len(pending), fresh |-> run.race = 0,
                 error |-> "", prev |-> cycle.error]
    /\ pending' = <<>>
    /\ loaded' = NothingLoaded
    /\ run' = NoRun
    /\ UNCHANGED <<impl, catalog, devices, now, runs, nreq, last>>

----------------------------------------------------------------------------
\* The database file outlives the process: create_db_and_tables() either
\* makes the empty tables, or finds the file an earlier process of src/main.py
\* left after POST /site/ (a), POST /device_type/ (a), POST /metric/ (a, mock),
\* POST /metric/ (b, mock), POST /device_type/1/add_metric/1 and
\* POST /device/device_type/1/site/1 (d).
EmptyDb ==
    /\ site = <<>>
    /\ devicetype = <<>>
    /\ metric = <<>>
    /\ devicetypemetriclink = {}
    /\ device = <<>>

SeededDb ==
    /\ site = (1 :> [name |-> "a"])
    /\ devicetype = (1 :> [name |-> "a"])
    /\ metric = (1 :> [name |-> "a", call |-> "mock"]) @@ (2 :> [name |-> "b", call |-> "mock"])
    /\ devicetypemetriclink = {<<1, 1>>}
    /\ device = (1 :> [name |-> "d", site_id |-> 1, device_type_id |-> 1, is_active |-> TRUE])

Start ==
    /\ impl \in Impl
    /\ measure = <<>>
    /\ now = 0
    /\ pc = "idle"
    /\ devices = <<>>
    /\ pending = <<>>
    /\ loaded = NothingLoaded
    /\ run = NoRun
    /\ cycle = [outcome |-> "none", n |-> 0, fresh |-> FALSE, error |-> "", prev |-> ""]
    /\ last = [op |-> "none", a |-> 0, b |-> 0]

Init ==
    /\ Start
    /\ SeededDb
    /\ nreq = MaxRequests
    /\ runs = MaxRuns

InitCatalog ==
    /\ Start
    /\ EmptyDb
    /\ nreq = MaxCatalogRequests
    /\ runs = 0

Request ==
    \/ \E name \in Names : site_new(name)
    \/ \E id \in Ids, name \in Names : site_edit(id, name)
    \/ \E id \in Ids : site_delete(id)
    \/ \E name \in Names : device_type_new(name)
    \/ \E id \in Ids, name \in Names : device_type_edit(id, name)
    \/ \E id \in Ids, metric_id \in Ids : device_type_add_metric(id, metric_id)
    \/ \E id \in Ids, metric_id \in Ids : device_type_remove_metric(id, metric_id)
    \/ \E id \in Ids : device_type_delete(id)
    \/ \E name \in DeviceNames, is_active \in BOOLEAN, device_type_id \in Ids, site_id \in Ids :
          device_new(name, is_active, device_type_id, site_id)
    \/ \E id \in Ids, name \in DeviceNames, is_active \in BOOLEAN,
          site_id \in Ids, device_type_id \in Ids :
          device_edit(id, name, is_active, site_id, device_type_id)
    \/ \E id \in Ids : device_delete(id)
    \/ \E name \in Names, call \in Calls : metric_new(name, call)
    \/ \E id \in Ids, name \in Names, call \in Calls : metric_edit(id, name, call)
    \/ \E id \in Ids : metric_delete(id)

Collector ==
    \/ measure_devices_start
    \/ scheduler_tick
    \/ measure_devices_device
    \/ measure_devices_commit

Next == Request \/ Collector

\* The whole service on the seeded database.
Spec == Init /\ [][Next]_vars

\* The catalog handlers on an empty database, the Collector never scheduled.
SpecCatalog == InitCatalog /\ [][Request]_vars

----------------------------------------------------------------------------
\* Properties. They are written over the tables themselves, so that they do
\* not lean on the operators the handlers are built from.

\* C1: once add_metric(d, m) has succeeded for an existing DeviceType d and an
\* existing Metric m, the association (d, m) is in the store and a second
\* add_metric(d, m) is answered 400; the link table, a set of pairs, holds
\* the association once.
C1_AttachIsIdempotentGuarded ==
    (/\ last.op = "add_metric"
     /\ last.a \in DOMAIN devicetype
     /\ last.b \in DOMAIN metric)
    => /\ <<last.a, last.b>> \in devicetypemetriclink
       /\ device_type_add_metric_status(last.a, last.b) = HTTP_400_BAD_REQUEST

\* C2: for an existing DeviceType d and an existing Metric m not attached to
\* d, remove_metric(d, m) is answered 400 and leaves the set of associations
\* as it was.
C2_DetachRequiresAttached ==
    [][\A d \in DOMAIN devicetype, m \in DOMAIN metric :
          <<d, m>> \notin devicetypemetriclink
          => /\ device_type_remove_metric_status(d, m) = HTTP_400_BAD_REQUEST
             /\ device_type_remove_metric(d, m)
                => devicetypemetriclink' = devicetypemetriclink]_vars

\* C3: a device that is inactive when a Collector cycle starts gets no
\* Measurement from that cycle: every row a run commits belongs to a device
\* that was active when the run started.
C3_InactiveDeviceNotSampled ==
    [][(pc = "running" /\ pc' = "idle")
       => \A i \in (Len(measure) + 1)..Len(measure') :
              measure'[i].device_id \in run.active]_vars

\* A run committed rows after device_edit had set another device inactive.
C3_Witness ==
    /\ last.op = "device_edit"
    /\ last.a \in DOMAIN device
    /\ ~device[last.a].is_active
    /\ cycle.outcome = "committed"
    /\ cycle.fresh
    /\ cycle.n > 0

\* C4: a cycle that commits, with no request answered in between, adds
\* exactly one Measurement for each pair of an active device and a metric
\* attached to its type and no other row: at most K * J rows when each of
\* the K active devices has at most J metrics attached to its type.
C4_OneMeasurementPerActivePair ==
    (cycle.outcome = "committed" /\ cycle.fresh)
    => LET new == (Len(measure) - cycle.n + 1)..Len(measure)
           active == {d \in DOMAIN device : device[d].is_active}
           attached(d) == {m \in DOMAIN metric :
                              <<device[d].device_type_id, m>> \in devicetypemetriclink}
           pairs == {p \in active \X DOMAIN metric : p[2] \in attached(p[1])}
       IN /\ \A p \in pairs :
                Cardinality({i \in new :
                    <<measure[i].device_id, measure[i].metric_id>> = p}) = 1
          /\ \A i \in new : <<measure[i].device_id, measure[i].metric_id>> \in pairs
          /\ \A J \in 0..MaxId :
                (\A d \in active : Cardinality(attached(d)) <= J)
                => cycle.n <= Cardinality(active) * J

\* A cycle over two active devices with two attached metrics each committed
\* four rows.
C4_Witness ==
    /\ cycle.outcome = "committed"
    /\ cycle.fresh
    /\ cycle.n = 4
    /\ Cardinality({d \in DOMAIN device : device[d].is_active}) = 2

\* What C5 says of one response r of GET /device/{id}: one entry for each
\* metric the device has a Measurement of, none for any other metric, each
\* entry with the largest timestamp among the Measurements of that device
\* and metric. A response that is an error carries no entries.
C5_Entries(id, r) ==
    LET rows == {i \in DOMAIN measure : measure[i].device_id = id}
        of(m) == {i \in rows : measure[i].metric_id = m}
        entries == r.last_measures
    IN /\ \A m \in {measure[i].metric_id : i \in rows} :
             Cardinality({k \in DOMAIN entries : entries[k].metric_id = m}) = 1
       /\ \A k \in DOMAIN entries :
             /\ of(entries[k].metric_id) # {}
             /\ \A i \in of(entries[k].metric_id) :
                   measure[i].timestamp <= entries[k].timestamp
             /\ \E i \in of(entries[k].metric_id) :
                   measure[i].timestamp = entries[k].timestamp

\* C5: for every existing device, the snapshot GET /device/{id} returns has
\* exactly one entry for each metric with at least one Measurement of the
\* device, no entry for a metric with none, and each entry's timestamp is the
\* maximum among the device's Measurements of that metric.
C5_SnapshotLatestPerMetric ==
    \A id \in DOMAIN device : \A r \in device_view(id) : C5_Entries(id, r)

\* C5, of the requests that are answered 200 only: the snapshot they carry
\* is as C5 says.
C5_SnapshotLatestWhenAnswered ==
    \A id \in DOMAIN device : \A r \in device_view(id) :
        r.status = HTTP_200_OK => C5_Entries(id, r)

\* A snapshot with two metrics, one of them measured at two different times.
C5_Witness ==
    \E id \in DOMAIN device : \E r \in device_view(id) :
        /\ r.status = HTTP_200_OK
        /\ Len(r.last_measures) = 2
        /\ \E i, j \in DOMAIN measure :
              /\ measure[i].device_id = id
              /\ measure[j].device_id = id
              /\ measure[i].metric_id = measure[j].metric_id
              /\ measure[i].timestamp < measure[j].timestamp

\* What C6 says of one response r of GET /history/{d}/{m}: every Measurement
\* of the device and metric exactly once, with the row's value and
\* timestamp, no other row, in non-increasing timestamp. A response that is
\* an error carries no rows.
C6_History(d, m, r) ==
    LET rows == {i \in DOMAIN measure :
                    measure[i].device_id = d /\ measure[i].metric_id = m}
        h == r.history
    IN /\ Len(h) = Cardinality(rows)
       /\ {h[k].id : k \in DOMAIN h} = rows
       /\ \A k \in DOMAIN h :
             /\ h[k].value = measure[h[k].id].value
             /\ h[k].timestamp = measure[h[k].id].timestamp
       /\ \A k \in 1..(Len(h) - 1) : h[k].timestamp >= h[k + 1].timestamp

\* C6: for every existing device and metric, the history returns exactly the
\* Measurements stored for the pair, in non-increasing timestamp.
C6_HistoryCompleteAndOrdered ==
    \A d \in DOMAIN device, m \in DOMAIN metric :
        \A r \in measure_history(d, m) : C6_History(d, m, r)

\* C6, of the requests that are answered 200 only: the history they carry is
\* as C6 says.
C6_HistoryWhenAnswered ==
    \A d \in DOMAIN device, m \in DOMAIN metric :
        \A r \in measure_history(d, m) :
            r.status = HTTP_200_OK => C6_History(d, m, r)

\* A history of two rows taken at different times, while the log also holds
\* rows of another metric.
C6_Witness ==
    \E d \in DOMAIN device, m \in DOMAIN metric : \E r \in measure_history(d, m) :
        /\ r.status = HTTP_200_OK
        /\ Len(r.history) = 2
        /\ r.history[1].timestamp > r.history[2].timestamp
        /\ \E i \in DOMAIN measure : measure[i].metric_id # m

\* The rows the last committed cycle added.
C7_new == (Len(measure) - cycle.n + 1)..Len(measure)

\* C7: after a cycle commits a Measurement for a device and a metric, the
\* history of that pair, when it is answered, returns that Measurement, its
\* value and timestamp, as its first element, whatever the timestamps of the
\* earlier rows.
C7_NewestFirst ==
    cycle.outcome = "committed"
    => \A i \in C7_new :
          \A r \in measure_history(measure[i].device_id, measure[i].metric_id) :
              r.status = HTTP_200_OK
              => /\ r.history[1].value = measure[i].value
                 /\ r.history[1].timestamp = measure[i].timestamp

\* C7, of the rows whose timestamp is strictly larger than that of every
\* earlier row of the pair only: the committed row comes first.
C7_NewestFirstWhenStrictlyLater ==
    cycle.outcome = "committed"
    => \A i \in C7_new :
          (\A j \in 1..(i - 1) :
              (/\ measure[j].device_id = measure[i].device_id
               /\ measure[j].metric_id = measure[i].metric_id)
              => measure[j].timestamp < measure[i].timestamp)
          => \A r \in measure_history(measure[i].device_id, measure[i].metric_id) :
                r.status = HTTP_200_OK => r.history[1].id = i

\* A cycle committed a row for a pair that already had an older row with a
\* smaller timestamp and another value, and the history answers 200.
C7_Witness ==
    /\ cycle.outcome = "committed"
    /\ \E i \in C7_new : \E j \in 1..(i - 1) :
          /\ measure[j].device_id = measure[i].device_id
          /\ measure[j].metric_id = measure[i].metric_id
          /\ measure[j].timestamp < measure[i].timestamp
          /\ measure[j].value # measure[i].value
          /\ \E r \in measure_history(measure[i].device_id, measure[i].metric_id) :
                r.status = HTTP_200_OK

\* C8: with a site, a device type, a metric whose call is "mock", the metric
\* attached by add_metric(type_id, metric_id), an active device of that type
\* at that site, and one Collector cycle committed, GET /device/{id} answers
\* 200 with exactly one entry for that metric, its value in [1, 100).
C8_ReferenceScenario ==
    \A d \in DOMAIN device, m \in DOMAIN metric :
        (/\ last = [op |-> "add_metric", a |-> device[d].device_type_id, b |-> m]
         /\ device[d].device_type_id \in DOMAIN devicetype
         /\ device[d].site_id \in DOMAIN site
         /\ device[d].is_active
         /\ metric[m].call = "mock"
         /\ cycle.outcome = "committed"
         /\ cycle.fresh
         /\ cycle.n = Len(measure))
        => \A r \in device_view(d) :
              /\ r.status = HTTP_200_OK
              /\ Cardinality({k \in DOMAIN r.last_measures :
                                 r.last_measures[k].metric_id = m}) = 1
              /\ \A k \in DOMAIN r.last_measures :
                    r.last_measures[k].metric_id = m
                    => r.last_measures[k].value \in 1..99

\* C9: DELETE /site/{id} of a site that owns devices is answered 200, and
\* afterwards the site, its devices and their Measurements are gone, while
\* the devices and Measurements of other sites are as before.
C9_SiteDeleteCascades ==
    [][\A id \in DOMAIN site :
          LET owned == {d \in DOMAIN device : device[d].site_id = id}
          IN owned # {}
             => /\ site_delete_status(id) = HTTP_200_OK
                /\ site_delete(id)
                   => /\ id \notin DOMAIN site'
                      /\ DOMAIN device' = DOMAIN device \ owned
                      /\ \A d \in DOMAIN device' : device'[d] = device[d]
                      /\ \A i \in DOMAIN measure' : measure'[i].device_id \notin owned]_vars

\* C10: every Device references a Site and a DeviceType that are in the
\* store.
C10_DeviceReferencesExist ==
    \A d \in DOMAIN device :
        /\ device[d].site_id \in DOMAIN site
        /\ device[d].device_type_id \in DOMAIN devicetype

\* C11: every stored Measurement references a Device and a Metric that are
\* rows of the store, also when the device or metric is deleted during or
\* after the run that sampled it.
C11_MeasurementReferencesExist ==
    \A i \in DOMAIN measure :
        /\ measure[i].device_id \in DOMAIN device
        /\ measure[i].metric_id \in DOMAIN metric

\* C12: a step of the Collector, in a run that commits or in one that fails,
\* leaves the Sites, DeviceTypes, Metrics, Devices and type-metric
\* associations as they were; all it does to the store is append rows to the
\* measurement log.
C12_CollectorLeavesCatalog ==
    [][(pc' # pc \/ devices' # devices \/ pending' # pending)
        => /\ site' = site
           /\ devicetype' = devicetype
           /\ metric' = metric
           /\ device' = device
           /\ devicetypemetriclink' = devicetypemetriclink
           /\ Len(measure') >= Len(measure)
           /\ \A i \in DOMAIN measure : measure'[i] = measure[i]]_vars

\* A run committed rows and, after a metric was edited, the next run failed.
C12_Witness ==
    /\ cycle.outcome = "failed"
    /\ cycle.prev = ""
    /\ last.op = "metric_edit"
    /\ Len(measure) > 0

\* C13: the measurement log only grows, and only by the Collector's commit:
\* a request leaves it as it is, and a step keeps every row that was there,
\* with its device, metric, value and timestamp, unless that step deletes
\* the row's device or metric; device_edit setting a device inactive keeps
\* the device's rows.
C13_LogAppendOnly ==
    [][/\ \A i \in DOMAIN measure :
             \/ i \in DOMAIN measure' /\ measure'[i] = measure[i]
             \/ measure[i].device_id \notin DOMAIN device'
             \/ measure[i].metric_id \notin DOMAIN metric'
       /\ measure' # measure
             => /\ pc = "running"
                /\ pc' = "idle"
                /\ nreq' = nreq
                /\ last' = last
       /\ (nreq' # nreq /\ last'.op = "device_edit")
             => measure' = measure]_vars

\* device_edit has set inactive a device that has two rows in the log.
C13_Witness ==
    /\ last.op = "device_edit"
    /\ last.a \in DOMAIN device
    /\ ~device[last.a].is_active
    /\ Cardinality({i \in DOMAIN measure : measure[i].device_id = last.a}) >= 2

\* C14: a run stores its Measurements all or none. A run that fails leaves
\* the log as it was, also when it had sampled devices and metrics before
\* the failing one; and a run during which no request was answered fails when
\* a metric attached to the type of an active device has a call that is no
\* registered sampling function.
C14_FailedCycleStoresNothing ==
    [][(pc = "running" /\ pc' = "idle")
        => /\ cycle'.outcome = "failed" => measure' = measure
           /\ (/\ run.race = 0
               /\ \E d \in DOMAIN device, m \in DOMAIN metric :
                     /\ device[d].is_active
                     /\ <<device[d].device_type_id, m>> \in devicetypemetriclink
                     /\ metric[m].call # "mock")
              => /\ cycle'.outcome = "failed"
                 /\ measure' = measure]_vars

\* A run failed on an unknown call after it had sampled another metric of the
\* device.
C14_Witness ==
    /\ cycle.outcome = "failed"
    /\ cycle.error = "ValueError"
    /\ cycle.fresh
    /\ cycle.n > 0

\* C15: a run that fails on an unknown call leaves the service as it was:
\* the tables the handlers answer from are unchanged, no request is used up,
\* and the job stays scheduled (the Collector is idle again with as many runs
\* ahead as before). The run after such a failure, once every call attached
\* to an active device's type is a registered name and no request is answered
\* during it, commits exactly one row for each pair of an active device and
\* a metric attached to its type.
C15_FailureDoesNotStopService ==
    [][(pc = "running" /\ pc' = "idle")
        => /\ cycle'.error = "ValueError"
                => /\ <<site, devicetype, metric, devicetypemetriclink, device>>' =
                      <<site, devicetype, metric, devicetypemetriclink, device>>
                   /\ measure' = measure
                   /\ nreq' = nreq
                   /\ last' = last
                   /\ runs' = runs
           /\ (/\ cycle.error = "ValueError"
               /\ run.race = 0
               /\ \A d \in DOMAIN device :
                     device[d].is_active
                     => /\ device[d].device_type_id \in DOMAIN devicetype
                        /\ \A m \in DOMAIN metric :
                              <<device[d].device_type_id, m>> \in devicetypemetriclink
                              => metric[m].call = "mock")
              => LET new == (Len(measure) + 1)..Len(measure')
                     pairs == {<<d, m>> \in (DOMAIN device) \X (DOMAIN metric) :
                                  /\ device[d].is_active
                                  /\ <<device[d].device_type_id, m>> \in devicetypemetriclink}
                 IN /\ cycle'.outcome = "committed"
                    /\ Cardinality(new) = Cardinality(pairs)
                    /\ {<<measure'[i].device_id, measure'[i].metric_id>> : i \in new} = pairs]_vars

\* A run failed on an unknown call, metric_edit then gave the metric a
\* registered call, and the next run committed rows.
C15_Witness ==
    /\ cycle.outcome = "committed"
    /\ cycle.prev = "ValueError"
    /\ cycle.fresh
    /\ cycle.n > 0
    /\ last.op = "metric_edit"
    /\ metric[last.a].call = "mock"

\* The statuses of the requests addressed to some entities: all 404 when one
\* of the entities is missing, none 404 when all exist.
C16_Answer(statuses, missing) ==
    IF missing THEN statuses \subseteq {HTTP_404_NOT_FOUND}
    ELSE HTTP_404_NOT_FOUND \notin statuses

\* C16: every operation addressed to a Site, DeviceType, Device or Metric id
\* that is no row of the store answers 404, and none answers 404 when every
\* entity it names exists. (The entities device_edit names are the device of
\* its path and the site and device type of its body.)
C16_MissingIdsAnswer404 ==
    /\ \A id \in Ids :
          /\ C16_Answer({site_page_status(id), site_delete_status(id)}
                           \cup {site_edit_status(id, name) : name \in Names},
                        id \notin DOMAIN site)
          /\ C16_Answer({device_type_page_status(id), device_type_delete_status(id)}
                           \cup {device_type_edit_status(id, name) : name \in Names},
                        id \notin DOMAIN devicetype)
          /\ C16_Answer({metric_page_status(id), metric_delete_status(id)}
                           \cup {metric_edit_status(id, name) : name \in Names},
                        id \notin DOMAIN metric)
          /\ C16_Answer({r.status : r \in device_view(id)} \cup {device_delete_status(id)},
                        id \notin DOMAIN device)
    /\ \A id \in Ids, metric_id \in Ids :
          C16_Answer({device_type_add_metric_status(id, metric_id),
                      device_type_remove_metric_status(id, metric_id)},
                     id \notin DOMAIN devicetype \/ metric_id \notin DOMAIN metric)
    /\ \A device_type_id \in Ids, site_id \in Ids :
          /\ C16_Answer({device_new_status(device_type_id, site_id)},
                        device_type_id \notin DOMAIN devicetype \/ site_id \notin DOMAIN site)
          /\ \A id \in Ids :
                C16_Answer({device_edit_status(id, site_id, device_type_id)},
                           \/ id \notin DOMAIN device
                           \/ site_id \notin DOMAIN site
                           \/ device_type_id \notin DOMAIN devicetype)
    /\ \A device_id \in Ids, metric_id \in Ids :
          C16_Answer({r.status : r \in measure_history(device_id, metric_id)},
                     device_id \notin DOMAIN device \/ metric_id \notin DOMAIN metric)

\* C17: no two Sites, no two DeviceTypes and no two Metrics have the same
\* name, whatever creates and edits were requested.
C17_NamesUnique ==
    /\ \A i \in DOMAIN site, j \in DOMAIN site :
          site[i].name = site[j].name => i = j
    /\ \A i \in DOMAIN devicetype, j \in DOMAIN devicetype :
          devicetype[i].name = devicetype[j].name => i = j
    /\ \A i \in DOMAIN metric, j \in DOMAIN metric :
          metric[i].name = metric[j].name => i = j

\* Two sites and two metrics exist, and a site has just been edited.
C17_Witness ==
    /\ Cardinality(DOMAIN site) = 2
    /\ Cardinality(DOMAIN metric) = 2
    /\ last.op = "site_edit"

\* C18: POST /device/device_type/{device_type_id}/site/{site_id} with an
\* existing device type and an existing site is answered 200, and the device
\* it has stored has that type and that site and a name: the one given or,
\* when none was given, the device type's name.
C18_DeviceNewStoresDevice ==
    /\ \A device_type_id \in DOMAIN devicetype, site_id \in DOMAIN site :
          device_new_status(device_type_id, site_id) = HTTP_200_OK
    /\ last.op = "device_new"
          => LET d == SetMax(DOMAIN device)
             IN /\ device[d].device_type_id = last.a
                /\ device[d].site_id = last.b
                /\ device[d].name \in (DeviceNames \ {""}) \cup {devicetype[last.a].name}

\* C19: a successful add_metric(id, metric_id) adds the association of device
\* type id with metric metric_id and changes no other association; a
\* successful remove_metric(id, metric_id) removes that association, which
\* was there, and changes no other; also when id and metric_id differ.
C19_ActsOnMetricId ==
    [][nreq' # nreq
        => /\ last'.op = "add_metric"
                => devicetypemetriclink' =
                       devicetypemetriclink \cup {<<last'.a, last'.b>>}
           /\ last'.op = "remove_metric"
                => /\ <<last'.a, last'.b>> \in devicetypemetriclink
                   /\ devicetypemetriclink' =
                          devicetypemetriclink \ {<<last'.a, last'.b>>}]_vars

\* C20: every Measurement a run commits carries a clock reading taken during
\* that run, not before the run read the device table and not after its
\* commit, and the readings do not decrease along the rows in the order the
\* run sampled them.
C20_TimestampsPerSample ==
    [][(pc = "running" /\ pc' = "idle")
        => LET new == (Len(measure) + 1)..Len(measure')
           IN /\ \A i \in new :
                    /\ run.started <= measure'[i].timestamp
                    /\ measure'[i].timestamp <= now'
              /\ \A i \in new, j \in new :
                    i <= j => measure'[i].timestamp <= measure'[j].timestamp]_vars

\* The second run committed two rows with different timestamps.
C20_Witness ==
    /\ cycle.outcome = "committed"
    /\ cycle.n >= 2
    /\ Len(measure) > cycle.n
    /\ measure[Len(measure) - 1].timestamp < measure[Len(measure)].timestamp

C22_SamplingFailureIsolated ==
    [][(/\ pc = "running"
        /\ pc' = "idle"
        /\ run.race = 0
        /\ \A d \in DOMAIN device :
              device[d].is_active
              => /\ device[d].device_type_id \in DOMAIN devicetype
                 /\ \A m \in DOMAIN metric :
                       <<device[d].device_type_id, m>> \in devicetypemetriclink
                       => metric[m].call \in {"mock", "measure_devices"})
        => \A d \in DOMAIN device, m \in DOMAIN metric :
              (/\ device[d].is_active
               /\ <<device[d].device_type_id, m>> \in devicetypemetriclink
               /\ metric[m].call = "mock")
              => \E i \in (Len(measure) + 1)..Len(measure') :
                    /\ measure'[i].device_id = d
                    /\ measure'[i].metric_id = m]_vars

\* C23: the snapshot and the history are functions of the measurement log.
\* Each request has one possible response; a history answered 200 lists the
\* rows by timestamp, newest first, and rows of equal timestamp by id, later
\* inserted first; a snapshot answered 200 gives for each metric, among the
\* rows of the largest timestamp, the one inserted last.
C23_ViewsDeterministic ==
    /\ \A d \in Ids : Cardinality(device_view(d)) = 1
    /\ \A d \in Ids, m \in Ids : Cardinality(measure_history(d, m)) = 1
    /\ \A d \in Ids, m \in Ids : \A r \in measure_history(d, m) :
          \A k \in DOMAIN r.history, l \in DOMAIN r.history :
              k < l => \/ r.history[k].timestamp > r.history[l].timestamp
                       \/ /\ r.history[k].timestamp = r.history[l].timestamp
                          /\ r.history[k].id > r.history[l].id
    /\ \A d \in Ids : \A r \in device_view(d) :
          \A k \in DOMAIN r.last_measures :
              \A i \in DOMAIN measure :
                  (/\ measure[i].device_id = d
                   /\ measure[i].metric_id = r.last_measures[k].metric_id)
                  => \/ measure[i].timestamp < r.last_measures[k].timestamp
                     \/ /\ measure[i].timestamp = r.last_measures[k].timestamp
                        /\ i <= r.last_measures[k].id

\* C24: POST /device/{id} on an existing device either leaves the stored
\* device as it was, when the site or the device type of the request body is
\* no row of the store, or, when it is answered 200, leaves the device on
\* the site and with the device type the body names.
C24_DeviceEditAllOrNothing ==
    [][device' # device
        => \A id \in DOMAIN device, name \in DeviceNames, is_active \in BOOLEAN,
              site_id \in Ids, device_type_id \in Ids :
              device_edit(id, name, is_active, site_id, device_type_id)
              => /\ site_id \in DOMAIN site
                 /\ device_type_id \in DOMAIN devicetype
                 /\ device'[id].site_id = site_id
                 /\ device'[id].device_type_id = device_type_id]_vars

====
